---- MODULE Spec2Model ----
(***************************************************************************)
(* ISPnubMod firmware, src/main.c: the main loop of main() as a state      *)
(* machine, together with the two wake interrupt handlers ISR(INT0_vect)   *)
(* and ISR(INT1_vect), the timer that drives the two tick counters, the   *)
(* two switches, the cycle counter and the programming engine.            *)
(*                                                                         *)
(* The main loop is cut into steps at the points where the environment    *)
(* can be observed: tick bookkeeping (lines 99-114), signaling render     *)
(* (116-181), mode processing (185-264) and the sleep check (267-273).    *)
(* The two blocking points of the loop, script_run() and sleep_cpu(),     *)
(* are positions of their own.                                            *)
(***************************************************************************)
EXTENDS Integers, FiniteSets, Sequences, TLC

VARIABLES
    pc,           \* position of main(): see PCs
    state,        \* uint8_t state (line 90)
    sw,           \* value the switch statements of this iteration dispatched on (lines 123, 186)
    hit,          \* value of the condition of line 202 in this iteration
    success,      \* uint8_t success (line 85)
    buzzer,       \* uint8_t buzzer (line 87)
    toggle250MS,  \* uint8_t toggle250MS (line 88)
    ticker10MS,   \* uint8_t ticker10MS (line 81)
    ticker250MS,  \* uint8_t ticker250MS (line 82)
    sleeptimer,   \* uint8_t sleeptimer (line 83)
    I,            \* global interrupt enable flag of the processor (sei/cli)
    SE,           \* sleep enable bit (sleep_enable/sleep_disable)
    INTen,        \* INTen[k]: external interrupt INTk is armed (hal_enableINTk/hal_disableINTk)
    held,         \* held[k]: switch k is held down (the level of wake source INTk)
    key_state,    \* debounce: debounced state of switch k
    key_press,    \* debounce: a press edge of switch k is pending
    tickerSlow,   \* clock: slow tick counter
    tickerFast,   \* clock: fast tick counter
    tickedSlow,   \* the slow counter advanced during this loop iteration
    tickedFast,   \* the fast counter advanced during this loop iteration
    presses,      \* number of times a switch was pressed so far
    counter,      \* cycle counter: remaining programming cycles
    LEDgreen, LEDyellow, LEDred, BuzzerOut   \* outputs of the hardware abstraction

vars == <<pc, state, sw, hit, success, buzzer, toggle250MS, ticker10MS, ticker250MS,
          sleeptimer, I, SE, INTen, held, key_state, key_press, tickerSlow, tickerFast,
          tickedSlow, tickedFast, presses, counter, LEDgreen, LEDyellow, LEDred, BuzzerOut>>

mainVars == <<state, sw, hit, success, buzzer, toggle250MS, ticker10MS, ticker250MS,
              sleeptimer>>
outVars == <<LEDgreen, LEDyellow, LEDred, BuzzerOut>>
clockVars == <<tickerSlow, tickerFast, tickedSlow, tickedFast>>
envVars == <<tickerSlow, tickerFast, tickedSlow, tickedFast, presses>>
keyVars == <<key_state, key_press>>

(***************************************************************************)
(* Bounds of the model.                                                    *)
(***************************************************************************)
\* the behaviours explored have at most MaxSlowTicks ticks of the slow
\* counter, MaxFastTicks ticks of the fast counter and MaxPresses presses
\* of a switch
MaxSlowTicks == 3
MaxFastTicks == 4
MaxPresses == 2
\* largest number of programming cycles the cycle counter starts with
MaxCycles == 1
\* the behaviours explored for progress have at most MaxLiveSlowTicks ticks
\* of the slow counter (two inactivity windows), MaxLiveFastTicks ticks of
\* the fast counter (one debounce sample) and MaxLivePresses presses of a
\* switch
MaxLiveSlowTicks == 6
MaxLiveFastTicks == 1
MaxLivePresses == 1

(***************************************************************************)
(* Constants.                                                              *)
(***************************************************************************)
S_INIT == "S_INIT"
S_WAKEUP == "S_WAKEUP"
S_IDLE == "S_IDLE"
S_PROGRAMMING == "S_PROGRAMMING"
S_NO_MORE == "S_NO_MORE"
S_NO_PROGRAM == "S_NO_PROGRAM"
S_SLEEP == "S_SLEEP"
States == {S_INIT, S_WAKEUP, S_IDLE, S_PROGRAMMING, S_NO_MORE, S_NO_PROGRAM, S_SLEEP}

\* the tick counters and the tick references are uint8_t
TickerMod == 256

\* thresholds of the clock module, in ticks of the counter they are
\* compared with; the values are scaled down to the explored behaviours
CLOCK_TICKER_FAST_10MS == 0
CLOCK_TICKER_SLOW_250MS == 1
CLOCK_TICKER_SLOW_8S == 2

\* buzzer durations in units of 10 ms
BUZZER_OK == 3
BUZZER_FAILED == 30
BUZZER_LONG == 60

\* the two switches; each drives one of the wake sources INT0 and INT1
IO_SWITCH == "IO_SWITCH"
IO_EXT_SWITCH == "IO_EXT_SWITCH"
Switches == {IO_SWITCH, IO_EXT_SWITCH}

\* results of script_run(): 1 programming OK, 0 programming failed,
\* anything else (here 2) no program
ScriptResults == {0, 1, 2}

PCs == {"ticks", "render", "proc", "script", "seisleep", "halted", "resume", "check"}

(***************************************************************************)
(* Clock module.                                                           *)
(***************************************************************************)
clock_getTickerSlowDiff(ticker) == (tickerSlow - ticker) % TickerMod
clock_getTickerFastDiff(ticker) == (tickerFast - ticker) % TickerMod

(***************************************************************************)
(* Init: the state of main() on reaching the loop (lines 76-93).           *)
(***************************************************************************)
Init ==
    /\ pc = "ticks"
    /\ state = S_INIT
    /\ sw = S_INIT
    /\ hit = FALSE
    /\ success = 1
    /\ buzzer = 0
    /\ toggle250MS = 0
    /\ tickerSlow = 0
    /\ tickerFast = 0
    /\ ticker10MS = tickerFast
    /\ ticker250MS = tickerSlow
    /\ sleeptimer = tickerSlow
    /\ tickedSlow = FALSE
    /\ tickedFast = FALSE
    /\ presses = 0
    /\ I = 1
    /\ SE = 0
    /\ INTen \in [Switches -> BOOLEAN]
    /\ held = [k \in Switches |-> FALSE]
    /\ key_state = [k \in Switches |-> FALSE]
    /\ key_press = [k \in Switches |-> FALSE]
    /\ counter \in 0..MaxCycles
    /\ LEDgreen = 0 /\ LEDyellow = 0 /\ LEDred = 0 /\ BuzzerOut = 0

(***************************************************************************)
(* Processor: an armed wake source whose switch is held requests its       *)
(* handler for as long as the level lasts (level interrupt, lines 283 and *)
(* 287).  With I = 1 the handler runs before the next instruction of      *)
(* main(); the instruction that follows sei() still runs first.           *)
(***************************************************************************)
IntPending == I = 1 /\ \E k \in Switches : INTen[k] /\ held[k]

(***************************************************************************)
(* Debounce module.                                                        *)
(***************************************************************************)
\* tickDebounce(): sample the switches; a switch found newly held leaves a
\* pending press edge
tickDebounce ==
    /\ key_press' = [k \in Switches |-> key_press[k] \/ (held[k] /\ ~key_state[k])]
    /\ key_state' = held

\* get_key_press(1 << k): the pending press edge of switch k
get_key_press(k) == key_press[k]

\* (variant in which both queries of line 202 are always evaluated, as with
\* | in place of ||)
KeysAfterQuery_BothQueried == [k \in Switches |-> FALSE]

\* the pending edges left by the condition of line 202: get_key_press
\* clears the edge it reports, and || does not evaluate its right operand
\* when the left one is true
KeysAfterQuery ==
    IF get_key_press(IO_SWITCH)
    THEN [key_press EXCEPT ![IO_SWITCH] = FALSE]
    ELSE [key_press EXCEPT ![IO_EXT_SWITCH] = FALSE]

\* counter_read()
counter_read == counter

(***************************************************************************)
(* main(): tick bookkeeping, lines 99-114.                                 *)
(***************************************************************************)
SlowTickDue == clock_getTickerSlowDiff(ticker250MS) > CLOCK_TICKER_SLOW_250MS
FastTickDue == clock_getTickerFastDiff(ticker10MS) > CLOCK_TICKER_FAST_10MS

\* (variant without the test of line 112)
BuzzerTick_NoFloor(b) == b - 1

\* lines 112-113
BuzzerTick(b) == IF b > 0 THEN b - 1 ELSE b

Ticks ==
    /\ pc = "ticks"
    /\ ~IntPending
    /\ IF SlowTickDue
       THEN /\ ticker250MS' = tickerSlow
            /\ toggle250MS' = 1 - toggle250MS
       ELSE UNCHANGED <<ticker250MS, toggle250MS>>
    /\ IF FastTickDue
       THEN /\ ticker10MS' = tickerFast
            /\ tickDebounce
            /\ buzzer' = BuzzerTick(buzzer)
       ELSE UNCHANGED <<ticker10MS, key_state, key_press, buzzer>>
    /\ tickedSlow' = FALSE
    /\ tickedFast' = FALSE
    /\ pc' = "render"
    /\ UNCHANGED <<state, sw, hit, success, sleeptimer, I, SE, INTen, held,
                   tickerSlow, tickerFast, presses, counter, outVars>>

(***************************************************************************)
(* main(): buzzer and led signaling, lines 116-181.                        *)
(***************************************************************************)
\* (variant without the hal_setBuzzer(0) of lines 129 and 178)
RenderBuzzer_CountdownOnly(s, b) == IF b = 0 THEN 0 ELSE 1

\* (variant without the hal_setBuzzer(0) of line 178)
RenderBuzzer_SleepNotForced(s, b) ==
    IF s \in {S_INIT, S_WAKEUP} THEN 0
    ELSE IF b = 0 THEN 0 ELSE 1

\* lines 117-121, then the hal_setBuzzer(0) of lines 129 and 178
RenderBuzzer(s, b) ==
    IF s \in {S_INIT, S_WAKEUP, S_SLEEP} THEN 0
    ELSE IF b = 0 THEN 0 ELSE 1

\* (variant in which case S_NO_PROGRAM blinks green in phase with red, as
\* case S_NO_MORE does)
RenderLEDs_NoProgramInPhase(s, ok, tog) ==
    CASE s \in {S_INIT, S_WAKEUP} -> <<1, 0, 0>>
      [] s = S_IDLE -> IF ok = 1 THEN <<1, 0, 0>> ELSE <<0, 0, tog>>
      [] s = S_PROGRAMMING -> <<0, 1, 0>>
      [] s \in {S_NO_MORE, S_NO_PROGRAM} -> <<tog, 0, tog>>
      [] s = S_SLEEP -> <<0, 0, 0>>

\* (variant in which case S_PROGRAMMING does not switch the red LED off)
RenderLEDs_ProgrammingRedOn(s, ok, tog) ==
    CASE s \in {S_INIT, S_WAKEUP} -> <<1, 0, 0>>
      [] s = S_IDLE -> IF ok = 1 THEN <<1, 0, 0>> ELSE <<0, 0, tog>>
      [] s = S_PROGRAMMING -> <<0, 1, 1>>
      [] s = S_NO_MORE -> <<tog, 0, tog>>
      [] s = S_NO_PROGRAM -> <<1 - tog, 0, tog>>
      [] s = S_SLEEP -> <<0, 0, 0>>

\* lines 123-181: <<green, yellow, red>>
RenderLEDs(s, ok, tog) ==
    CASE s \in {S_INIT, S_WAKEUP} -> <<1, 0, 0>>
      [] s = S_IDLE -> IF ok = 1 THEN <<1, 0, 0>> ELSE <<0, 0, tog>>
      [] s = S_PROGRAMMING -> <<0, 1, 0>>
      [] s = S_NO_MORE -> <<tog, 0, tog>>
      [] s = S_NO_PROGRAM -> <<1 - tog, 0, tog>>
      [] s = S_SLEEP -> <<0, 0, 0>>

Render ==
    /\ pc = "render"
    /\ ~IntPending
    /\ BuzzerOut' = RenderBuzzer(state, buzzer)
    /\ LET leds == RenderLEDs(state, success, toggle250MS)
       IN /\ LEDgreen' = leds[1]
          /\ LEDyellow' = leds[2]
          /\ LEDred' = leds[3]
    /\ sw' = state
    /\ hit' = FALSE
    /\ pc' = "proc"
    /\ UNCHANGED <<state, success, buzzer, toggle250MS, ticker10MS, ticker250MS,
                   sleeptimer, I, SE, INTen, held, keyVars, envVars, counter>>

(***************************************************************************)
(* main(): processing, lines 185-264.                                      *)
(***************************************************************************)
\* case S_INIT / S_WAKEUP, lines 187-197: the value of state at the break
\* (variant in which line 196 is the else branch of line 191)
InitWakeupNext_NoOverwrite == IF counter_read = 0 THEN S_NO_MORE ELSE S_IDLE

InitWakeupNext ==
    LET s1 == IF counter_read = 0 THEN S_NO_MORE ELSE state
        s2 == S_IDLE
    IN s2

ProcInitWakeup ==
    /\ pc = "proc"
    /\ ~IntPending
    /\ state \in {S_INIT, S_WAKEUP}
    /\ state' = InitWakeupNext
    /\ pc' = "check"
    /\ UNCHANGED <<sw, hit, success, buzzer, toggle250MS, ticker10MS, ticker250MS,
                   sleeptimer, I, SE, INTen, held, keyVars, envVars, counter, outVars>>

\* case S_IDLE, lines 199-213
\* (variant of line 202 that queries the primary switch only)
KeyHit_PrimaryOnly == get_key_press(IO_SWITCH)

KeyHit == get_key_press(IO_SWITCH) \/ get_key_press(IO_EXT_SWITCH)

\* (variant of lines 205-210 that tests counter_read() >= 0)
IdleNext_CounterNotNegative == IF counter_read >= 0 THEN S_PROGRAMMING ELSE S_NO_MORE

IdleNext == IF counter_read > 0 THEN S_PROGRAMMING ELSE S_NO_MORE
IdleBuzzer == IF counter_read > 0 THEN buzzer ELSE BUZZER_LONG

\* (variant without line 203)
IdleSleeptimer_Stale == sleeptimer

IdleSleeptimer == tickerSlow

ProcIdle ==
    /\ pc = "proc"
    /\ ~IntPending
    /\ state = S_IDLE
    /\ hit' = KeyHit
    /\ key_press' = KeysAfterQuery
    /\ IF KeyHit
       THEN /\ sleeptimer' = IdleSleeptimer
            /\ state' = IdleNext
            /\ buzzer' = IdleBuzzer
       ELSE UNCHANGED <<sleeptimer, state, buzzer>>
    /\ pc' = "check"
    /\ UNCHANGED <<sw, success, toggle250MS, ticker10MS, ticker250MS, I, SE, INTen,
                   held, key_state, envVars, counter, outVars>>

\* case S_PROGRAMMING, line 216: the call of script_run(), which blocks
ProcProgrammingCall ==
    /\ pc = "proc"
    /\ ~IntPending
    /\ state = S_PROGRAMMING
    /\ pc' = "script"
    /\ UNCHANGED <<mainVars, I, SE, INTen, held, keyVars, envVars, counter, outVars>>

\* lines 218-227
ResultBuzzer(r) == IF r = 1 THEN BUZZER_OK ELSE IF r = 0 THEN BUZZER_FAILED ELSE BUZZER_LONG
\* (variant in which every result other than 1 ends in S_NO_PROGRAM)
ResultNext_FailureNoProgram(r) == IF r = 1 THEN S_IDLE ELSE S_NO_PROGRAM

ResultNext(r) == IF r = 1 THEN S_IDLE ELSE IF r = 0 THEN S_IDLE ELSE S_NO_PROGRAM

\* (variant without line 230)
ProgrammingSleeptimer_Stale == sleeptimer

\* line 230
ProgrammingSleeptimer == tickerSlow

\* script_run() returns r, lines 216-232; the engine may have used up a cycle
ScriptReturn(r) ==
    /\ pc = "script"
    /\ ~IntPending
    /\ success' = r
    /\ buzzer' = ResultBuzzer(r)
    /\ state' = ResultNext(r)
    /\ sleeptimer' = ProgrammingSleeptimer
    /\ counter' \in {counter, IF counter > 0 THEN counter - 1 ELSE counter}
    /\ pc' = "check"
    /\ UNCHANGED <<sw, hit, toggle250MS, ticker10MS, ticker250MS, I, SE, INTen, held,
                   keyVars, envVars, outVars>>

\* (variant of lines 234-238 in which a pending press leads back to S_IDLE)
ProcNoMore_PressToIdle ==
    /\ pc = "proc"
    /\ ~IntPending
    /\ state \in {S_NO_MORE, S_NO_PROGRAM}
    /\ state' = IF KeyHit THEN S_IDLE ELSE state
    /\ pc' = "check"
    /\ UNCHANGED <<sw, hit, success, buzzer, toggle250MS, ticker10MS, ticker250MS,
                   sleeptimer, I, SE, INTen, held, keyVars, envVars, counter, outVars>>

\* case S_NO_MORE / S_NO_PROGRAM, lines 234-238
ProcNoMore ==
    /\ pc = "proc"
    /\ ~IntPending
    /\ state \in {S_NO_MORE, S_NO_PROGRAM}
    /\ pc' = "check"
    /\ UNCHANGED <<mainVars, I, SE, INTen, held, keyVars, envVars, counter, outVars>>

\* case S_SLEEP, lines 243-249: arm the wake sources, sleep_enable()
\* (variant without line 244: the external switch is not armed)
ArmedSources_OnlyINT0 == [INTen EXCEPT ![IO_SWITCH] = TRUE]

ArmedSources == [k \in Switches |-> TRUE]

ProcSleepArm ==
    /\ pc = "proc"
    /\ ~IntPending
    /\ state = S_SLEEP
    /\ INTen' = ArmedSources
    /\ SE' = 1
    /\ pc' = "seisleep"
    /\ UNCHANGED <<mainVars, I, held, keyVars, envVars, counter, outVars>>

\* lines 250-251: sei(); sleep_cpu(); the sleep instruction is the one that
\* follows sei, so no handler runs between the two; it halts the processor
\* when the sleep enable bit is set
SeiSleep ==
    /\ pc = "seisleep"
    /\ I' = 1
    /\ pc' = IF SE = 1 THEN "halted" ELSE "resume"
    /\ UNCHANGED <<mainVars, SE, INTen, held, keyVars, envVars, counter, outVars>>

\* the halted processor resumes when an armed wake source requests its
\* handler and interrupts are enabled
Wake ==
    /\ pc = "halted"
    /\ IntPending
    /\ pc' = "resume"
    /\ UNCHANGED <<mainVars, I, SE, INTen, held, keyVars, envVars, counter, outVars>>

\* (variant without line 258)
ResumeSleeptimer_Stale == sleeptimer

\* lines 255-263, after sleep_cpu()
ResumeSleeptimer == tickerSlow

Resume ==
    /\ pc = "resume"
    /\ ~IntPending
    /\ SE' = 0
    /\ sleeptimer' = ResumeSleeptimer
    /\ state' = S_WAKEUP
    /\ pc' = "check"
    /\ UNCHANGED <<sw, hit, success, buzzer, toggle250MS, ticker10MS, ticker250MS,
                   I, INTen, held, keyVars, envVars, counter, outVars>>

(***************************************************************************)
(* main(): go to sleep?, lines 267-273.                                    *)
(***************************************************************************)
\* (variant of line 269 comparing with >=)
SleepDue_AtThreshold == clock_getTickerSlowDiff(sleeptimer) >= CLOCK_TICKER_SLOW_8S

\* (variant that measures from the reference of the toggle cadence)
SleepDue_ToggleReference == clock_getTickerSlowDiff(ticker250MS) > CLOCK_TICKER_SLOW_8S

SleepDue == clock_getTickerSlowDiff(sleeptimer) > CLOCK_TICKER_SLOW_8S

\* (variant of lines 268-273 that enables interrupts in both branches)
CheckI_AlwaysSei == IF SleepDue THEN 1 ELSE 1

\* the interrupt flag left by lines 268-273
CheckI == IF SleepDue THEN 0 ELSE 1

GoToSleepCheck ==
    /\ pc = "check"
    /\ ~IntPending
    /\ state' = IF SleepDue THEN S_SLEEP ELSE state
    /\ I' = CheckI
    /\ pc' = "ticks"
    /\ UNCHANGED <<sw, hit, success, buzzer, toggle250MS, ticker10MS, ticker250MS,
                   sleeptimer, SE, INTen, held, keyVars, envVars, counter, outVars>>

(***************************************************************************)
(* Interrupt handlers, lines 282-288.                                      *)
(***************************************************************************)
\* (variant in which a handler disarms both wake sources)
ISR_DisarmBoth(k) ==
    /\ pc # "halted"
    /\ I = 1
    /\ INTen[k]
    /\ held[k]
    /\ INTen' = [j \in Switches |-> FALSE]
    /\ UNCHANGED <<pc, mainVars, I, SE, held, keyVars, envVars, counter, outVars>>

\* ISR(INTk_vect): hal_disableINTk()
ISR(k) ==
    /\ pc # "halted"
    /\ I = 1
    /\ INTen[k]
    /\ held[k]
    /\ INTen' = [INTen EXCEPT ![k] = FALSE]
    /\ UNCHANGED <<pc, mainVars, I, SE, held, keyVars, envVars, counter, outVars>>

(***************************************************************************)
(* Environment: the timer behind the two tick counters, the switches.      *)
(***************************************************************************)
\* The timer interrupt advances a counter.  It needs I = 1 and a running
\* clock (the timer stands still in power-down).  One pass of the loop is
\* far shorter than a tick, so a counter advances at most once per
\* iteration, except while script_run() blocks the loop.  main() reads the
\* counters in the tick bookkeeping, in the processing step and in the
\* sleep check only: an advance is placed before the bookkeeping, before
\* the sleep check or inside script_run(), which covers every value a read
\* can see.
TickPoints == {"ticks", "check", "script"}

TickSlow ==
    /\ I = 1
    /\ pc # "halted"
    /\ pc \in TickPoints
    /\ pc = "script" \/ ~tickedSlow
    /\ tickerSlow < MaxSlowTicks
    /\ tickerSlow' = (tickerSlow + 1) % TickerMod
    /\ tickedSlow' = (pc # "script" \/ tickedSlow)
    /\ UNCHANGED <<pc, mainVars, I, SE, INTen, held, keyVars, tickerFast, tickedFast,
                   presses, counter, outVars>>

TickFast ==
    /\ I = 1
    /\ pc # "halted"
    /\ pc \in TickPoints
    /\ pc = "script" \/ ~tickedFast
    /\ tickerFast < MaxFastTicks
    /\ tickerFast' = (tickerFast + 1) % TickerMod
    /\ tickedFast' = (pc # "script" \/ tickedFast)
    /\ UNCHANGED <<pc, mainVars, I, SE, INTen, held, keyVars, tickerSlow, tickedSlow,
                   presses, counter, outVars>>

\* A switch changes at any time.  Its level is seen by the debounce sampling
\* of the tick bookkeeping and by the wake sources: a change is placed
\* before the bookkeeping, inside script_run(), between the arming of the
\* wake sources and the halt, or while the processor is halted (a release
\* also right after the wake-up, before the handler has run).
PressPoints == {"ticks", "script", "seisleep", "halted"}
ReleasePoints == {"ticks", "script", "seisleep", "halted", "resume"}

Press(k) ==
    /\ pc \in PressPoints
    /\ ~held[k]
    /\ presses < MaxPresses
    /\ presses' = presses + 1
    /\ held' = [held EXCEPT ![k] = TRUE]
    /\ UNCHANGED <<pc, mainVars, I, SE, INTen, keyVars, clockVars, counter, outVars>>

Release(k) ==
    /\ pc \in ReleasePoints
    /\ held[k]
    /\ held' = [held EXCEPT ![k] = FALSE]
    /\ UNCHANGED <<pc, mainVars, I, SE, INTen, keyVars, clockVars, presses, counter,
                   outVars>>

Next ==
    \/ Ticks
    \/ Render
    \/ ProcInitWakeup
    \/ ProcIdle
    \/ ProcProgrammingCall
    \/ \E r \in ScriptResults : ScriptReturn(r)
    \/ ProcNoMore
    \/ ProcSleepArm
    \/ SeiSleep
    \/ Wake
    \/ Resume
    \/ GoToSleepCheck
    \/ \E k \in Switches : ISR(k)
    \/ TickSlow
    \/ TickFast
    \/ \E k \in Switches : Press(k)
    \/ \E k \in Switches : Release(k)

Spec == Init /\ [][Next]_vars

TypeOK ==
    /\ pc \in PCs
    /\ state \in States
    /\ sw \in States
    /\ hit \in BOOLEAN
    /\ success \in ScriptResults
    /\ buzzer \in 0..(TickerMod - 1)
    /\ toggle250MS \in {0, 1}
    /\ ticker10MS \in 0..(TickerMod - 1)
    /\ ticker250MS \in 0..(TickerMod - 1)
    /\ sleeptimer \in 0..(TickerMod - 1)
    /\ tickerSlow \in 0..(TickerMod - 1)
    /\ tickerFast \in 0..(TickerMod - 1)
    /\ I \in {0, 1}
    /\ SE \in {0, 1}
    /\ INTen \in [Switches -> BOOLEAN]
    /\ held \in [Switches -> BOOLEAN]
    /\ key_state \in [Switches -> BOOLEAN]
    /\ key_press \in [Switches -> BOOLEAN]
    /\ counter \in 0..MaxCycles

(***************************************************************************)
(* Properties.                                                             *)
(***************************************************************************)

\* the slow ticks elapsed since the inactivity reference was taken
SleepDelta == tickerSlow - sleeptimer

\* C1: no wake-up is lost in the sleep race window.  A wake source is a
\* level: its event is the switch being held.  Whenever the processor is
\* halted in sleep_cpu() and a switch is held (pressed before the halt,
\* in the window between the sleep decision and the halt, or during the
\* halt), the wake source of that switch is armed and interrupts are
\* enabled, so the processor resumes; and the iteration that halted
\* reaches its sleep check with Mode = WAKEUP.
C1_NoLostWakeup ==
    /\ pc = "halted" => \A k \in Switches : held[k] => (I = 1 /\ INTen[k])
    /\ (pc = "check" /\ sw = S_SLEEP) => state = S_WAKEUP

\* a switch is held inside the window: after the wake sources are armed,
\* before sei(); sleep_cpu()
C1_Witness ==
    /\ pc = "seisleep"
    /\ state = S_SLEEP
    /\ \E k \in Switches : held[k]

\* C2: the sleep atomicity protocol.  Outside the sleep branch interrupts
\* are disabled exactly when Mode is SLEEP (at the top of the iteration and
\* through tick bookkeeping, render and arming, so no handler runs there);
\* they are enabled again only by the sei() before sleep_cpu(), after both
\* wake sources are armed; whenever the processor is halted both wake
\* sources are armed and interrupts are enabled.
C2_SleepProtocol ==
    /\ pc \in {"ticks", "render", "proc"} => (I = 0 <=> state = S_SLEEP)
    /\ pc = "seisleep" => (I = 0 /\ state = S_SLEEP /\ \A k \in Switches : INTen[k])
    /\ pc = "halted" => (I = 1 /\ state = S_SLEEP /\ \A k \in Switches : INTen[k])
    /\ pc \in {"script", "resume", "check"} => I = 1

\* the processor is halted
C2_Witness ==
    /\ pc = "halted"
    /\ sw = S_SLEEP
    /\ SE = 1

\* C3: the sleep check forces Mode = SLEEP, leaving interrupts disabled,
\* exactly when more than CLOCK_TICKER_SLOW_8S slow ticks have elapsed since
\* the inactivity reference; otherwise it keeps the mode the processing
\* step produced and enables interrupts.
C3_SleepIffTimeout ==
    [][(pc = "check" /\ pc' = "ticks") =>
         IF SleepDelta > CLOCK_TICKER_SLOW_8S
         THEN state' = S_SLEEP /\ I' = 0
         ELSE state' = state /\ I' = 1]_vars

\* the check has forced SLEEP over the NO_MORE its iteration ended with
C3_Witness ==
    /\ pc = "ticks"
    /\ sw = S_NO_MORE
    /\ state = S_SLEEP
    /\ I = 0

\* C4: in an iteration that starts in PROGRAMMING the processing step calls
\* the engine, and nothing else, once; on its return the result 1 gives
\* Buzzer Countdown 3 and mode IDLE, the result 0 gives 30 and IDLE, any
\* other result gives 60 and NO_PROGRAM, and in every case the inactivity
\* reference is the current slow tick.
C4_ProgrammingOutcome ==
    [][/\ (pc = "proc" /\ state = S_PROGRAMMING /\ pc' # pc) =>
            (pc' = "script" /\ state' = state /\ buzzer' = buzzer /\ success' = success)
       /\ pc = "script" => (sw = S_PROGRAMMING /\ state = S_PROGRAMMING)
       /\ (pc = "script" /\ pc' # pc) =>
            /\ pc' = "check"
            /\ success' = 1 => (buzzer' = 3 /\ state' = S_IDLE)
            /\ success' = 0 => (buzzer' = 30 /\ state' = S_IDLE)
            /\ success' \notin {0, 1} => (buzzer' = 60 /\ state' = S_NO_PROGRAM)
            /\ sleeptimer' = tickerSlow']_vars

\* the engine has returned "no program"
C4_Witness ==
    /\ pc = "check"
    /\ sw = S_PROGRAMMING
    /\ success = 2
    /\ state = S_NO_PROGRAM
    /\ buzzer = 60

\* C5: the processing step of an iteration that starts in IDLE.  With a
\* press edge pending on the primary or the external switch it consumes an
\* edge, resets the inactivity reference and goes to PROGRAMMING (Buzzer
\* Countdown untouched) when remaining() is nonzero, to NO_MORE with Buzzer
\* Countdown 60 otherwise; with no edge pending it changes neither the
\* mode nor the inactivity reference nor the Buzzer Countdown.
C5_IdleTransition ==
    [][(pc = "proc" /\ state = S_IDLE /\ pc' = "check") =>
         IF key_press[IO_SWITCH] \/ key_press[IO_EXT_SWITCH]
         THEN /\ key_press' # key_press
              /\ sleeptimer' = tickerSlow
              /\ IF counter > 0
                 THEN state' = S_PROGRAMMING /\ buzzer' = buzzer
                 ELSE state' = S_NO_MORE /\ buzzer' = 60
         ELSE /\ state' = S_IDLE
              /\ sleeptimer' = sleeptimer
              /\ buzzer' = buzzer
              /\ key_press' = key_press]_vars

\* an edge of the external switch was consumed with no cycles left
C5_Witness ==
    /\ pc = "check"
    /\ sw = S_IDLE
    /\ hit
    /\ held[IO_EXT_SWITCH] /\ ~held[IO_SWITCH] /\ presses = 1
    /\ state = S_NO_MORE
    /\ buzzer = 60

\* C6: when a wake interrupt ends the halt, main() resumes after
\* sleep_cpu() in the SLEEP branch, resets the inactivity reference and
\* ends that iteration with Mode = WAKEUP (the sleep check does not force
\* SLEEP again); the iteration after it ends with Mode = IDLE.
C6_WakeToIdle ==
    /\ pc = "resume" => (sw = S_SLEEP /\ state = S_SLEEP)
    /\ (pc = "check" /\ sw = S_SLEEP) => (state = S_WAKEUP /\ SleepDelta <= 1)
    /\ (pc = "ticks" /\ sw = S_SLEEP) => state = S_WAKEUP
    /\ (pc \in {"check", "ticks"} /\ sw = S_WAKEUP) => state = S_IDLE

\* the iteration after the wake-up has ended; the handler of the external
\* switch has disarmed its source
C6_Witness ==
    /\ pc = "ticks"
    /\ sw = S_WAKEUP
    /\ state = S_IDLE
    /\ ~INTen[IO_EXT_SWITCH]
    /\ INTen[IO_SWITCH]

\* C7: an iteration that consumed a press edge in IDLE ends with Mode =
\* PROGRAMMING or NO_MORE, and one that ran the engine ends with IDLE or
\* NO_PROGRAM: neither ends with SLEEP.  Mode = PROGRAMMING is left only
\* by the return of the engine.
C7_NoSleepMidActivity ==
    /\ [](/\ (pc = "ticks" /\ sw = S_IDLE /\ hit) => state \in {S_PROGRAMMING, S_NO_MORE}
          /\ (pc = "ticks" /\ sw = S_PROGRAMMING) => state \in {S_IDLE, S_NO_PROGRAM})
    /\ [][(state = S_PROGRAMMING /\ state' # state) => pc = "script"]_vars

\* a press was consumed in an iteration whose sleep check ran more than
\* CLOCK_TICKER_SLOW_8S ticks after the start
C7_Witness ==
    /\ pc = "ticks"
    /\ sw = S_IDLE
    /\ hit
    /\ state = S_PROGRAMMING
    /\ tickerSlow > CLOCK_TICKER_SLOW_8S

\* what the processing step that ends here has to do with the inactivity
\* reference: Reset(c) says every step of the kind c resets it
ProcStepEnds == pc \in {"proc", "script", "resume"} /\ pc' = "check"
PressPending == \E k \in Switches : key_press[k]

\* C8 as claimed: the inactivity reference is reset by the processing step
\* whenever a press edge is pending in IDLE, NO_MORE or NO_PROGRAM, on
\* every return of the engine and on every wake from sleep.
C8_ResetOnEveryPress ==
    [][(/\ ProcStepEnds
        /\ \/ pc = "script"
           \/ pc = "resume"
           \/ (state \in {S_IDLE, S_NO_MORE, S_NO_PROGRAM} /\ PressPending)) =>
         sleeptimer' = tickerSlow']_vars

\* C8, amended: the inactivity reference is reset whenever a press edge is
\* consumed, which happens in IDLE only, on every return of the engine and
\* on every wake from sleep; the processing step of NO_MORE and NO_PROGRAM
\* leaves a pending press edge and the inactivity reference as they are.
C8_ResetOnActivity ==
    [][/\ (/\ ProcStepEnds
           /\ \/ pc = "script"
              \/ pc = "resume"
              \/ (state = S_IDLE /\ PressPending)) =>
            sleeptimer' = tickerSlow'
       /\ (ProcStepEnds /\ state \in {S_NO_MORE, S_NO_PROGRAM}) =>
            (sleeptimer' = sleeptimer /\ key_press' = key_press)]_vars

\* a consumed press has moved the inactivity reference
C8_Witness ==
    /\ pc = "check"
    /\ sw = S_IDLE
    /\ hit
    /\ sleeptimer = tickerSlow
    /\ sleeptimer > 0

\* C9: the processing step of an iteration that starts in INIT or WAKEUP
\* ends with Mode = IDLE whatever remaining() returns, and changes nothing
\* else: NO_MORE is never the mode after INIT or WAKEUP.
C9_InitWakeupToIdle ==
    [][(pc = "proc" /\ state \in {S_INIT, S_WAKEUP} /\ pc' # pc) =>
         /\ pc' = "check"
         /\ state' = S_IDLE
         /\ UNCHANGED <<buzzer, sleeptimer, success, counter, key_press>>]_vars

\* WAKEUP has led to IDLE with no cycles left
C9_Witness ==
    /\ pc = "check"
    /\ sw = S_WAKEUP
    /\ counter = 0
    /\ state = S_IDLE

\* C10: NO_MORE and NO_PROGRAM are left only for SLEEP, and only by the
\* sleep check, whatever the switches and remaining() are; IDLE is entered
\* only from INIT, WAKEUP and PROGRAMMING, and WAKEUP only from SLEEP.
C10_NoMoreAbsorbing ==
    [][/\ (state \in {S_NO_MORE, S_NO_PROGRAM} /\ state' # state) =>
            (state' = S_SLEEP /\ pc = "check")
       /\ (state' = S_IDLE /\ state # S_IDLE) => state \in {S_INIT, S_WAKEUP, S_PROGRAMMING}
       /\ (state' = S_WAKEUP /\ state # S_WAKEUP) => state = S_SLEEP]_vars

\* an iteration in NO_PROGRAM has kept the mode with a press edge pending
\* and cycles left
C10_Witness ==
    /\ pc = "check"
    /\ sw = S_NO_PROGRAM
    /\ state = S_NO_PROGRAM
    /\ key_press[IO_SWITCH]
    /\ counter > 0

\* C11: Buzzer Countdown stays in 0..60.  It changes only in three places:
\* at a fast-tick boundary of the tick bookkeeping, where it goes down by
\* exactly 1 (and never below 0); in IDLE processing on a consumed press
\* with no cycles left, where it becomes exactly 60; and on the return of
\* the engine, where it becomes exactly 3 (OK), 30 (failed) or 60 (no
\* program), whatever it was before.  Nothing else raises it.
C11_BuzzerCountdown ==
    /\ [](buzzer \in 0..60)
    /\ [][/\ buzzer' < buzzer =>
               \/ pc = "ticks" /\ FastTickDue /\ buzzer' = buzzer - 1
               \/ pc \in {"proc", "script"} /\ buzzer' \in {3, 30, 60}
          /\ buzzer' > buzzer =>
               (pc \in {"proc", "script"} /\ buzzer' \in {3, 30, 60})
          /\ (pc = "ticks" /\ ~FastTickDue) => buzzer' = buzzer
          /\ (pc = "proc" /\ buzzer' # buzzer) =>
               (state = S_IDLE /\ hit' /\ counter = 0 /\ buzzer' = 60)
          /\ (pc = "script" /\ pc' = "check") =>
               buzzer' = (IF success' = 1 THEN 3 ELSE IF success' = 0 THEN 30 ELSE 60)
          /\ (pc \notin {"ticks", "proc", "script"}) => buzzer' = buzzer]_vars

\* after a failed programming the countdown was set to 60 by a press in
\* IDLE with no cycles left and has gone down by one fast tick
C11_Witness ==
    /\ pc = "render"
    /\ success = 0
    /\ buzzer = 59

C13_OutcomeNotAcrossSleep ==
    [][(pc = "render" /\ sw = S_WAKEUP /\ state = S_IDLE) =>
           (LEDgreen' = 1 /\ LEDred' = 0)]_vars

\* C14: after the signaling render the LED outputs are the per-mode
\* function of the mode the iteration started in, the Toggle Flag and the
\* Last Outcome: INIT/WAKEUP green on, yellow and red off; IDLE green on
\* and red off if the outcome is Success, else green off and red = Toggle;
\* PROGRAMMING green off and exactly one of yellow and red on; NO_MORE
\* green = red = Toggle; NO_PROGRAM green = not Toggle, red = Toggle;
\* SLEEP all off; yellow off in every mode but PROGRAMMING.
C14_LedRender ==
    pc = "proc" =>
        /\ state \in {S_INIT, S_WAKEUP} =>
               (LEDgreen = 1 /\ LEDyellow = 0 /\ LEDred = 0)
        /\ (state = S_IDLE /\ success = 1) => (LEDgreen = 1 /\ LEDred = 0)
        /\ (state = S_IDLE /\ success # 1) => (LEDgreen = 0 /\ LEDred = toggle250MS)
        /\ state = S_PROGRAMMING => (LEDgreen = 0 /\ LEDyellow + LEDred = 1)
        /\ state = S_NO_MORE => (LEDgreen = toggle250MS /\ LEDred = toggle250MS)
        /\ state = S_NO_PROGRAM =>
               (LEDgreen = 1 - toggle250MS /\ LEDred = toggle250MS)
        /\ state = S_SLEEP => (LEDgreen = 0 /\ LEDyellow = 0 /\ LEDred = 0)
        /\ state # S_PROGRAMMING => LEDyellow = 0
        /\ {LEDgreen, LEDyellow, LEDred} \subseteq {0, 1}

\* NO_PROGRAM has been rendered with the Toggle Flag set: red on, green off
C14_Witness ==
    /\ pc = "proc"
    /\ state = S_NO_PROGRAM
    /\ toggle250MS = 1
    /\ LEDgreen = 0
    /\ LEDred = 1

\* C15: a wake interrupt handler only disarms its own source.  The only
\* steps that disarm a source are handler steps; such a step needs
\* interrupts enabled and the switch of that source held, and it leaves
\* Mode, Buzzer Countdown, Toggle Flag, Last Outcome, the three tick
\* references, the position of main() and the armed state of the other
\* source as they were.  Mode changes only in the processing and sleep
\* check steps of the loop body.
C15_HandlerFrame ==
    [][/\ \A k \in Switches :
            (INTen[k] /\ ~INTen'[k]) =>
                /\ I = 1 /\ held[k]
                /\ \A j \in Switches \ {k} : INTen'[j] = INTen[j]
                /\ UNCHANGED <<state, buzzer, toggle250MS, success,
                               ticker10MS, ticker250MS, sleeptimer, pc, I, SE>>
       /\ state' # state => pc \in {"proc", "script", "resume", "check"}]_vars

\* the handler of the primary switch has run after the wake from the halt:
\* its source is disarmed, the other source is still armed, and Mode is
\* still SLEEP
C15_Witness ==
    /\ pc = "resume"
    /\ state = S_SLEEP
    /\ held[IO_SWITCH]
    /\ ~INTen[IO_SWITCH]
    /\ INTen[IO_EXT_SWITCH]

\* C16: whenever the processor is halted in sleep_cpu(), and from the
\* arming of the wake sources on, the green, yellow and red LED outputs
\* and the buzzer output are off, also when Buzzer Countdown is nonzero:
\* the iteration that halts has rendered SLEEP.
C16_DarkWhileHalted ==
    pc \in {"seisleep", "halted"} =>
        /\ sw = S_SLEEP
        /\ LEDgreen = 0 /\ LEDyellow = 0 /\ LEDred = 0
        /\ BuzzerOut = 0

\* halted with the countdown still nonzero
C16_Witness ==
    /\ pc = "halted"
    /\ buzzer > 0
    /\ BuzzerOut = 0

\* C17: signaling is frozen at the PROGRAMMING appearance while the engine
\* runs.  The loop is blocked in script_run() only in an iteration that
\* rendered PROGRAMMING, and from that render until the render of the
\* next iteration (so during the call, and after it whatever mode the
\* result has chosen) the LED outputs are green off and exactly one of
\* yellow and red on; the step on which the call returns writes no output.
C17_FrozenWhileProgramming ==
    /\ [](/\ pc = "script" => (sw = S_PROGRAMMING /\ state = S_PROGRAMMING)
          /\ sw = S_PROGRAMMING => (LEDgreen = 0 /\ LEDyellow + LEDred = 1))
    /\ [][pc = "script" => UNCHANGED outVars]_vars

\* the engine has returned "no program": Mode is NO_PROGRAM and the
\* outputs still show PROGRAMMING
C17_Witness ==
    /\ pc = "check"
    /\ sw = S_PROGRAMMING
    /\ state = S_NO_PROGRAM
    /\ LEDgreen = 0
    /\ LEDyellow + LEDred = 1

\* C19: the programming engine is never invoked with no cycles left.
\* Whenever Mode is PROGRAMMING, and whenever the loop is inside
\* script_run(), the cycle counter is above 0: PROGRAMMING is entered only
\* from IDLE on a consumed press with counter_read() > 0, and the counter
\* does not change between that test and the call.
C19_EngineOnlyWithCycles ==
    /\ state = S_PROGRAMMING => counter > 0
    /\ pc = "script" => (state = S_PROGRAMMING /\ counter > 0)

\* the engine is running again after an attempt that failed
C19_Witness ==
    /\ pc = "script"
    /\ success = 0
    /\ counter > 0

\* C20: one IDLE iteration consumes at most one press edge.  A pending
\* edge is cleared only by the processing of an IDLE iteration, which
\* clears one edge at most; with edges pending on both switches it clears
\* the primary one and leaves the external one pending; and every IDLE
\* processing that finds an edge pending (so also the later one that finds
\* the external edge left over) consumes it and leaves IDLE for
\* PROGRAMMING or NO_MORE.
C20_OneEdgePerIdle ==
    [][/\ (\E k \in Switches : key_press[k] /\ ~key_press'[k]) =>
            /\ pc = "proc" /\ state = S_IDLE
            /\ Cardinality({k \in Switches : key_press[k] /\ ~key_press'[k]}) = 1
            /\ hit'
            /\ state' \in {S_PROGRAMMING, S_NO_MORE}
       /\ (pc = "proc" /\ state = S_IDLE /\ key_press[IO_SWITCH]
              /\ key_press[IO_EXT_SWITCH]) =>
            (~key_press'[IO_SWITCH] /\ key_press'[IO_EXT_SWITCH])
       /\ (pc = "proc" /\ state = S_IDLE /\ ~key_press[IO_SWITCH]
              /\ key_press[IO_EXT_SWITCH]) =>
            (~key_press'[IO_EXT_SWITCH] /\ hit' /\ state' # S_IDLE)]_vars

\* an IDLE iteration has consumed the primary edge and left IDLE with the
\* external edge still pending
C20_Witness ==
    /\ pc = "check"
    /\ sw = S_IDLE
    /\ hit
    /\ state = S_PROGRAMMING
    /\ ~key_press[IO_SWITCH]
    /\ key_press[IO_EXT_SWITCH]

(***************************************************************************)
(* Progress.  The processor executes main() as long as it is not halted    *)
(* and serves a requested handler; script_run() returns; the timer keeps   *)
(* advancing the slow counter while the processor is awake.  The           *)
(* behaviours explored are longer in slow ticks than those of Spec, and    *)
(* shorter in fast ticks and presses.                                      *)
(***************************************************************************)
TickSlowLive ==
    /\ I = 1
    /\ pc # "halted"
    /\ pc \in TickPoints
    /\ pc = "script" \/ ~tickedSlow
    /\ tickerSlow < MaxLiveSlowTicks
    /\ tickerSlow' = (tickerSlow + 1) % TickerMod
    /\ tickedSlow' = (pc # "script" \/ tickedSlow)
    /\ UNCHANGED <<pc, mainVars, I, SE, INTen, held, keyVars, tickerFast, tickedFast,
                   presses, counter, outVars>>

TickFastLive ==
    /\ I = 1
    /\ pc # "halted"
    /\ pc \in TickPoints
    /\ pc = "script" \/ ~tickedFast
    /\ tickerFast < MaxLiveFastTicks
    /\ tickerFast' = (tickerFast + 1) % TickerMod
    /\ tickedFast' = (pc # "script" \/ tickedFast)
    /\ UNCHANGED <<pc, mainVars, I, SE, INTen, held, keyVars, tickerSlow, tickedSlow,
                   presses, counter, outVars>>

PressLive(k) ==
    /\ pc \in PressPoints
    /\ ~held[k]
    /\ presses < MaxLivePresses
    /\ presses' = presses + 1
    /\ held' = [held EXCEPT ![k] = TRUE]
    /\ UNCHANGED <<pc, mainVars, I, SE, INTen, keyVars, clockVars, counter, outVars>>

\* the steps of main() that do not wait for anything
MainStep ==
    \/ Ticks
    \/ Render
    \/ ProcInitWakeup
    \/ ProcIdle
    \/ ProcProgrammingCall
    \/ ProcNoMore
    \/ ProcSleepArm
    \/ SeiSleep
    \/ Resume
    \/ GoToSleepCheck

EngineReturns == \E r \in ScriptResults : ScriptReturn(r)

Handler == \E k \in Switches : ISR(k)

NextLive ==
    \/ MainStep
    \/ EngineReturns
    \/ Wake
    \/ Handler
    \/ TickSlowLive
    \/ TickFastLive
    \/ \E k \in Switches : PressLive(k)
    \/ \E k \in Switches : Release(k)

LiveSpec ==
    /\ Init
    /\ [][NextLive]_vars
    /\ WF_vars(MainStep)
    /\ WF_vars(Handler)
    /\ WF_vars(EngineReturns)
    /\ SF_vars(TickSlowLive)

\* an awake mode, with an inactivity window still ahead in the behaviours
\* explored
AwakeModes == {S_INIT, S_WAKEUP, S_IDLE, S_NO_MORE, S_NO_PROGRAM}
WindowAhead == sleeptimer + CLOCK_TICKER_SLOW_8S < MaxLiveSlowTicks

\* C18: inactivity leads to sleep.  With main() executing, the engine
\* returning and the slow counter advancing while the processor is awake,
\* every state in an awake mode (INIT, WAKEUP, IDLE, NO_MORE, NO_PROGRAM)
\* is followed by a state in which the processor is halted in sleep_cpu()
\* with Mode = SLEEP, or by the consumption of a press edge.  So once no
\* press edge is consumed any more, the device ends up halted.
C18_InactivityLeadsToSleep ==
    (state \in AwakeModes /\ WindowAhead)
        ~> ((pc = "halted" /\ state = S_SLEEP) \/ hit)

\* halted again after a wake from sleep: the inactivity reference is the
\* one taken on resuming, and the switch that woke the device is released
C18_Witness ==
    /\ pc = "halted"
    /\ state = S_SLEEP
    /\ sleeptimer > CLOCK_TICKER_SLOW_8S
    /\ presses = 1
    /\ \A k \in Switches : ~held[k] /\ ~key_press[k] /\ ~key_state[k]

====
